---------------------------- MODULE Spec2Model ----------------------------
(***************************************************************************)
(* Treasure Snake (snake_game_frontend/src/App.js).                        *)
(*                                                                         *)
(* The React component App is modelled as a state machine.  Its useState   *)
(* cells are the variables; every event handler (key press, button click,  *)
(* interval callback) is one action that runs the handler together with    *)
(* the re-render and the effects the state change triggers.                *)
(***************************************************************************)
EXTENDS Integers, Sequences, FiniteSets

VARIABLES
    isPlaying,      \* useState(false)                       App.js:32
    score,          \* useState(0)                           App.js:33
    direction,      \* useState(INITIAL_DIRECTION)           App.js:34
    nextDirection,  \* useState(INITIAL_DIRECTION)           App.js:35
    snake,          \* useState(INITIAL_SNAKE)               App.js:36
    treasure,       \* useState(() => getRandomTreasure(..)) App.js:37
    gameOver,       \* useState(false)                       App.js:38
    snakeIsInitial, \* snake === INITIAL_SNAKE (object identity, App.js:265)
    intervalAge,    \* time since setInterval was called or last fired, App.js:83
    sinceTick       \* time since the last tick, or since the loop was started

vars == <<isPlaying, score, direction, nextDirection, snake, treasure,
          gameOver, snakeIsInitial, intervalAge, sinceTick>>

-----------------------------------------------------------------------------
(* Configuration constants, App.js:5-12 *)

GRID_SIZE == 20

INITIAL_SNAKE == << [x |-> 9, y |-> 10], [x |-> 8, y |-> 10] >>

INITIAL_DIRECTION == [x |-> 1, y |-> 0]

-----------------------------------------------------------------------------
(* Bounds of the exploration *)

\* The snake is not grown beyond MaxLen segments.
MaxLen == 5

\* The same, in the specification with the timer.
TimerMaxLen == 3

\* The period TICK_MS of the interval, counted in steps of time.
TickQuanta == 2

-----------------------------------------------------------------------------
(* Math.floor(Math.random() * GRID_SIZE): the outcomes explored, App.js:20-21 *)

RandomX == {10, 16}

RandomY == {10}

\* The set of cells the snake occupies (the `occupied` set of App.js:16).
Occupied(s) == { s[i] : i \in 1..Len(s) }

\* Variant: the loop condition `occupied.has(...)` is dropped.
getRandomTreasure_anyCell(s) == [x : RandomX, y : RandomY]

\* getRandomTreasure(snake): the positions the rejection loop can return.
getRandomTreasure(s) ==
    { pos \in [x : RandomX, y : RandomY] : pos \notin Occupied(s) }

-----------------------------------------------------------------------------
(* Key handling, App.js:58-73 *)

Keys == {"ArrowUp", "ArrowDown", "ArrowLeft", "ArrowRight", "W", "a", "Enter"}

\* e.key.toLowerCase() on the keys explored.
toLowerCase(k) ==
    CASE k = "ArrowUp"    -> "arrowup"
      [] k = "ArrowDown"  -> "arrowdown"
      [] k = "ArrowLeft"  -> "arrowleft"
      [] k = "ArrowRight" -> "arrowright"
      [] k = "W"          -> "w"
      [] k = "A"          -> "a"
      [] k = "S"          -> "s"
      [] k = "D"          -> "d"
      [] OTHER            -> k

null == [x |-> 0, y |-> 0]

\* The newDir the four `if` lines of App.js:64-67 leave behind.
KeyDir(k) ==
    LET lk == toLowerCase(k) IN
    IF lk = "arrowright" \/ lk = "d" THEN [x |-> 1, y |-> 0]
    ELSE IF lk = "arrowleft" \/ lk = "a" THEN [x |-> -1, y |-> 0]
    ELSE IF lk = "arrowdown" \/ lk = "s" THEN [x |-> 0, y |-> 1]
    ELSE IF lk = "arrowup" \/ lk = "w" THEN [x |-> 0, y |-> -1]
    ELSE null

\* Variant: the guard compares with the buffered direction.
IsReverse_vsBuffered(dir, newDir) ==
    nextDirection.x + newDir.x = 0 /\ nextDirection.y + newDir.y = 0

\* Variant: the second comparison reads newDir.x for newDir.y.
IsReverse_typo(dir, newDir) == dir.x + newDir.x = 0 /\ dir.y + newDir.x = 0

\* App.js:71, the guard against reversing.
IsReverse(dir, newDir) == dir.x + newDir.x = 0 /\ dir.y + newDir.y = 0

onKeyDown(k) ==
    /\ k \in Keys
    /\ IF KeyDir(k) = null \/ IsReverse(direction, KeyDir(k))
       THEN UNCHANGED nextDirection
       ELSE nextDirection' = KeyDir(k)
    /\ UNCHANGED <<isPlaying, score, direction, snake, treasure, gameOver,
                   snakeIsInitial>>

-----------------------------------------------------------------------------
(* Game loop, App.js:81-123 *)

\* Variant: the effect lacks its early return.
LoopActive_unguarded(playing, over) == TRUE

\* App.js:82: the interval exists only while this holds.
LoopActive(playing, over) == playing /\ ~over

\* Variant: the y coordinate adds dir.x.
NewHead_typo(prev, dir) == [x |-> prev[1].x + dir.x, y |-> prev[1].y + dir.x]

NewHead(prev, dir) == [x |-> prev[1].x + dir.x, y |-> prev[1].y + dir.y]

\* Variant: `>` for `>=` in the upper bounds.
WallCollision_offByOne(newHead) ==
    \/ newHead.x < 0 \/ newHead.x > GRID_SIZE
    \/ newHead.y < 0 \/ newHead.y > GRID_SIZE

\* Variant: the two lower bounds are missing.
WallCollision_upperOnly(newHead) ==
    newHead.x >= GRID_SIZE \/ newHead.y >= GRID_SIZE

\* App.js:90
WallCollision(newHead) ==
    \/ newHead.x < 0 \/ newHead.x >= GRID_SIZE
    \/ newHead.y < 0 \/ newHead.y >= GRID_SIZE

\* Variant: the loop stops before the last segment.
SelfCollision_skipTail(prev, newHead) ==
    \E i \in 1..(Len(prev) - 1) :
        prev[i].x = newHead.x /\ prev[i].y = newHead.y

\* Variant: the loop looks at the head and the neck only.
SelfCollision_headOnly(prev, newHead) ==
    \E i \in 1..2 : prev[i].x = newHead.x /\ prev[i].y = newHead.y

\* App.js:97-104
SelfCollision(prev, newHead) ==
    \E i \in 1..Len(prev) : prev[i].x = newHead.x /\ prev[i].y = newHead.y

\* App.js:110
TreasureHit(newHead, t) == newHead.x = t.x /\ newHead.y = t.y

\* Variant: the tail is not removed.
Pop_kept(s) == s

\* Variant: shift() for pop(), the new head is removed.
Pop_shift(s) == SubSeq(s, 2, Len(s))

\* newSnake.pop()
Pop(s) == SubSeq(s, 1, Len(s) - 1)

\* const newSnake = [newHead, ...prev], App.js:107
NewSnake == <<NewHead(snake, nextDirection)>> \o snake

\* The interval callback.  cap is the length up to which the snake is grown,
\* outcomes the values of getRandomTreasure(newSnake) that are explored.
Advance(cap, outcomes) ==
    /\ LoopActive(isPlaying, gameOver)
    /\ direction' = nextDirection
    /\ LET newHead  == NewHead(snake, nextDirection)
           newSnake == NewSnake
       IN  IF WallCollision(newHead) \/ SelfCollision(snake, newHead)
           THEN /\ gameOver' = TRUE
                /\ isPlaying' = FALSE
                /\ UNCHANGED <<snake, snakeIsInitial, score, treasure>>
           ELSE IF TreasureHit(newHead, treasure)
           THEN /\ Len(snake) < cap
                /\ score' = score + 10
                /\ treasure' \in outcomes
                /\ snake' = newSnake
                /\ snakeIsInitial' = FALSE
                /\ UNCHANGED <<isPlaying, gameOver>>
           ELSE /\ snake' = Pop(newSnake)
                /\ snakeIsInitial' = FALSE
                /\ UNCHANGED <<score, treasure, isPlaying, gameOver>>
    /\ UNCHANGED nextDirection

Tick == Advance(MaxLen, getRandomTreasure(NewSnake))

-----------------------------------------------------------------------------
(* Buttons, App.js:214-227 and 255-269 *)

\* Variant: setNextDirection(INITIAL_DIRECTION) is missing.
startGame_keepsBuffer ==
    /\ snake' = INITIAL_SNAKE
    /\ snakeIsInitial' = TRUE
    /\ direction' = INITIAL_DIRECTION
    /\ UNCHANGED nextDirection
    /\ treasure' \in getRandomTreasure(INITIAL_SNAKE)
    /\ score' = 0
    /\ gameOver' = FALSE
    /\ isPlaying' = TRUE

\* Variant: setScore(0) is missing.
startGame_keepsScore ==
    /\ snake' = INITIAL_SNAKE
    /\ snakeIsInitial' = TRUE
    /\ direction' = INITIAL_DIRECTION
    /\ nextDirection' = INITIAL_DIRECTION
    /\ treasure' \in getRandomTreasure(INITIAL_SNAKE)
    /\ UNCHANGED score
    /\ gameOver' = FALSE
    /\ isPlaying' = TRUE

\* Variant: setGameOver(false) is missing.
startGame_keepsGameOver ==
    /\ snake' = INITIAL_SNAKE
    /\ snakeIsInitial' = TRUE
    /\ direction' = INITIAL_DIRECTION
    /\ nextDirection' = INITIAL_DIRECTION
    /\ treasure' \in getRandomTreasure(INITIAL_SNAKE)
    /\ score' = 0
    /\ UNCHANGED gameOver
    /\ isPlaying' = TRUE

startGame ==
    /\ snake' = INITIAL_SNAKE
    /\ snakeIsInitial' = TRUE
    /\ direction' = INITIAL_DIRECTION
    /\ nextDirection' = INITIAL_DIRECTION
    /\ treasure' \in getRandomTreasure(INITIAL_SNAKE)
    /\ score' = 0
    /\ gameOver' = FALSE
    /\ isPlaying' = TRUE

\* The `disabled` attribute of the Pause/Resume button, App.js:265.
PauseDisabled ==
    ~isPlaying /\ ~(~isPlaying /\ ~gameOver /\ ~snakeIsInitial)

\* Variant: the `if (gameOver) return` line is missing.
pauseResume_noGuard ==
    /\ isPlaying' = ~isPlaying
    /\ UNCHANGED <<score, direction, nextDirection, snake, treasure, gameOver,
                   snakeIsInitial>>

\* The handler, App.js:224-227.
pauseResume ==
    /\ IF gameOver
       THEN UNCHANGED isPlaying
       ELSE isPlaying' = ~isPlaying
    /\ UNCHANGED <<score, direction, nextDirection, snake, treasure, gameOver,
                   snakeIsInitial>>

\* A click on the Pause/Resume button: only an enabled button fires onClick.
PauseClick == ~PauseDisabled /\ pauseResume

-----------------------------------------------------------------------------

Init ==
    /\ isPlaying = FALSE
    /\ score = 0
    /\ direction = INITIAL_DIRECTION
    /\ nextDirection = INITIAL_DIRECTION
    /\ snake = INITIAL_SNAKE
    /\ snakeIsInitial = TRUE
    /\ treasure \in getRandomTreasure(INITIAL_SNAKE)
    /\ gameOver = FALSE
    /\ intervalAge = 0
    /\ sinceTick = 0

\* Spec and the specifications derived from it leave time out: the interval
\* callback may run at any moment at which the interval exists.
Untimed == UNCHANGED <<intervalAge, sinceTick>>

KeyPress == \E k \in Keys : onKeyDown(k)

Next ==
    \/ KeyPress /\ Untimed
    \/ Tick /\ Untimed
    \/ startGame /\ Untimed
    \/ PauseClick /\ Untimed

Spec == Init /\ [][Next]_vars

\* The handlers called as commands, whatever the state of the buttons.
NextCommands ==
    \/ KeyPress /\ Untimed
    \/ Tick /\ Untimed
    \/ startGame /\ Untimed
    \/ pauseResume /\ Untimed

SpecCommands == Init /\ [][NextCommands]_vars

-----------------------------------------------------------------------------
(* The game with its timer.  Time advances in steps; the interval set up by *)
(* the game loop effect fires TickQuanta steps after it was set up or last  *)
(* fired; a callback that is due runs before time passes and before any    *)
(* later event is handled.  The effect, and with it clearInterval and       *)
(* setInterval, runs again after every render in which one of its           *)
(* dependencies [isPlaying, nextDirection, treasure, gameOver], App.js:123, *)
(* is a new value.                                                          *)

TickDue == LoopActive(isPlaying, gameOver) /\ intervalAge = TickQuanta

TimePasses ==
    /\ LoopActive(isPlaying, gameOver)
    /\ intervalAge < TickQuanta
    /\ intervalAge' = intervalAge + 1
    /\ sinceTick' = IF sinceTick <= TickQuanta THEN sinceTick + 1 ELSE sinceTick
    /\ UNCHANGED <<isPlaying, score, direction, nextDirection, snake, treasure,
                   gameOver, snakeIsInitial>>

TimedTick ==
    /\ TickDue
    /\ Advance(TimerMaxLen, getRandomTreasure(NewSnake))
    /\ intervalAge' = 0
    /\ sinceTick' = 0

\* setNextDirection(newDir) stores a new object: nextDirection is a new
\* dependency value after every accepted key press, also for the same
\* direction, and the interval is set up anew.
TimedKey ==
    \E k \in Keys :
        /\ ~TickDue
        /\ onKeyDown(k)
        /\ IF KeyDir(k) = null \/ IsReverse(direction, KeyDir(k))
           THEN UNCHANGED intervalAge
           ELSE intervalAge' = 0
        /\ UNCHANGED sinceTick

\* setTreasure(getRandomTreasure(..)) stores a new object.
TimedStart ==
    /\ ~TickDue
    /\ startGame
    /\ intervalAge' = 0
    /\ sinceTick' = 0

\* isPlaying changes.
TimedPause ==
    /\ ~TickDue
    /\ PauseClick
    /\ intervalAge' = 0
    /\ sinceTick' = 0

NextTimer ==
    \/ TimePasses
    \/ TimedTick
    \/ TimedKey
    \/ TimedStart
    \/ TimedPause

SpecTimer == Init /\ [][NextTimer]_vars

-----------------------------------------------------------------------------
(* One long game: the player steers the snake along a closed tour of the    *)
(* grid and every treasure falls on the cell in front of the head.          *)

\* The tour: up column 0, then the rows 0, 1, 2, ... in turn over the
\* columns 1..GRID_SIZE-1, rightwards on even rows and leftwards on odd ones.
TourDir(p) ==
    IF p.x = 0
    THEN IF p.y > 0 THEN [x |-> 0, y |-> -1] ELSE [x |-> 1, y |-> 0]
    ELSE IF p.y % 2 = 0
    THEN IF p.x < GRID_SIZE - 1 THEN [x |-> 1, y |-> 0] ELSE [x |-> 0, y |-> 1]
    ELSE IF p.x > 1 THEN [x |-> -1, y |-> 0]
    ELSE IF p.y < GRID_SIZE - 1 THEN [x |-> 0, y |-> 1]
    ELSE [x |-> -1, y |-> 0]

TourNext(p) == [x |-> p.x + TourDir(p).x, y |-> p.y + TourDir(p).y]

\* getRandomTreasure(snake) when Math.random() gives the cell that follows
\* the head on the tour: returned if free, drawn again (for ever) if not.
getRandomTreasureOnTour(s) ==
    { pos \in {TourNext(s[1])} : pos \notin Occupied(s) }

InitTour == Init /\ treasure = TourNext(INITIAL_SNAKE[1])

StartTour ==
    /\ ~isPlaying
    /\ startGame
    /\ treasure' = TourNext(INITIAL_SNAKE[1])
    /\ Untimed

KeyTour ==
    /\ isPlaying
    /\ \E k \in Keys : KeyDir(k) = TourDir(snake[1]) /\ onKeyDown(k)
    /\ Untimed

TickTour ==
    /\ nextDirection = TourDir(snake[1])
    /\ Advance(GRID_SIZE * GRID_SIZE + 1, getRandomTreasureOnTour(NewSnake))
    /\ Untimed

NextTour == StartTour \/ KeyTour \/ TickTour

\* The interval fires as long as it exists, and the player keeps steering.
SpecTour ==
    InitTour /\ [][NextTour]_vars /\ WF_vars(TickTour) /\ WF_vars(KeyTour)

-----------------------------------------------------------------------------
(* Vocabulary of the properties, stated without the operators of the code *)

Cell(px, py) == [x |-> px, y |-> py]

InGrid(p) == p.x \in 0..(GRID_SIZE - 1) /\ p.y \in 0..(GRID_SIZE - 1)

OnBody(s, p) == \E i \in DOMAIN s : s[i] = p

Opposite(d) == [x |-> 0 - d.x, y |-> 0 - d.y]

Directions == {Cell(1, 0), Cell(-1, 0), Cell(0, 1), Cell(0, -1)}

\* The keys that ask for direction d.
KeysFor == [d \in Directions |-> {k \in Keys : KeyDir(k) = d}]

\* The cell the next tick computes as the new head.
Ahead == Cell(snake[1].x + nextDirection.x, snake[1].y + nextDirection.y)

\* The cell in front of the head along the committed direction.
Facing == Cell(snake[1].x + direction.x, snake[1].y + direction.y)

LastCell == snake[Len(snake)]

-----------------------------------------------------------------------------
(* C1: in every reachable state the treasure is on no snake segment. *)
C1_TreasureOffSnake == \A i \in 1..Len(snake) : snake[i] # treasure

\* The snake has eaten, the treasure was sampled against the grown snake,
\* and the snake lies next to it again.
C1_Witness ==
    /\ score > 0
    /\ Len(snake) >= 3
    /\ Ahead = treasure

(* C2: while GameOver is false the snake segments are pairwise distinct. *)
C2_SnakeDistinct ==
    ~gameOver =>
        \A i, j \in 1..Len(snake) : i # j => snake[i] # snake[j]

\* A live snake curled so that the cell ahead is one of its inner segments.
C2_Witness ==
    /\ ~gameOver
    /\ isPlaying
    /\ Len(snake) >= 5
    /\ Ahead = snake[4]

(* C3: the direction a tick commits is never the opposite of the direction
   committed before it (the initial direction for the first tick). *)
C3_NoReversal == [][Tick => direction' # Opposite(direction)]_vars

\* A tick has committed a turn away from the initial direction.
C3_Witness ==
    /\ ~snakeIsInitial
    /\ direction # INITIAL_DIRECTION
    /\ snake[1] = Cell(snake[2].x + direction.x, snake[2].y + direction.y)

(* C4: a tick whose new head is inside the grid and off the pre-move body
   grows the snake by 1 and the score by 10 when the new head is on the
   treasure, and otherwise leaves length and score as they were. *)
C4_GrowthAndScore ==
    [][(Tick /\ InGrid(Ahead) /\ ~OnBody(snake, Ahead)) =>
         IF Ahead = treasure
         THEN Len(snake') = Len(snake) + 1 /\ score' = score + 10
         ELSE Len(snake') = Len(snake) /\ score' = score]_vars

\* The snake has eaten once and has moved on without eating.
C4_Witness ==
    /\ score = 10
    /\ Len(snake) = 3
    /\ ~OnBody(snake, Cell(10, 10))
    /\ ~OnBody(snake, Cell(16, 10))

(* C5: a tick whose new head is outside the grid ends the game: GameOver is
   true, Running is false, snake, score and treasure are unchanged. *)
C5_WallCollision ==
    [][(Tick /\ ~InGrid(Ahead)) =>
         /\ gameOver' /\ ~isPlaying'
         /\ snake' = snake /\ score' = score /\ treasure' = treasure]_vars

\* The game has ended with the head on the border, facing the wall.
C5_Witness ==
    /\ gameOver
    /\ ~InGrid(Facing)

(* C6: a tick whose new head is on any segment of the pre-move body, the
   tail included, ends the game with snake, score and treasure unchanged. *)
C6_SelfCollision ==
    [][(Tick /\ OnBody(snake, Ahead)) =>
         /\ gameOver' /\ ~isPlaying'
         /\ snake' = snake /\ score' = score /\ treasure' = treasure]_vars

\* The game has ended with the head facing the snake's own last cell.
C6_Witness ==
    /\ gameOver
    /\ Len(snake) >= 4
    /\ Facing = LastCell
    /\ Facing # treasure

(* C7: once GameOver is true, every step other than start() leaves snake,
   score, treasure, committed direction, Running and GameOver as they are. *)
C7_GameOverTerminal ==
    [][(gameOver /\ ~startGame) =>
         /\ gameOver'
         /\ isPlaying' = isPlaying
         /\ snake' = snake /\ score' = score /\ treasure' = treasure
         /\ direction' = direction]_vars

\* Game over, and a key pressed afterwards has changed the buffered
\* direction to one that would move the snake to a free cell.
C7_Witness ==
    /\ gameOver
    /\ nextDirection # direction
    /\ InGrid(Ahead)
    /\ ~OnBody(snake, Ahead)

(* C8: start() is possible in every state and yields snake [(9,10),(8,10)],
   committed = buffered direction (1,0), score 0, GameOver false, Running
   true and a treasure off the initial snake. *)
C8_StartResets ==
    [][/\ ENABLED startGame
       /\ startGame =>
            /\ snake' = << Cell(9, 10), Cell(8, 10) >>
            /\ direction' = Cell(1, 0)
            /\ nextDirection' = Cell(1, 0)
            /\ score' = 0
            /\ ~gameOver'
            /\ isPlaying'
            /\ treasure' \notin {Cell(9, 10), Cell(8, 10)}
            /\ InGrid(treasure')]_vars

\* A game running on the untouched initial snake: start() has just run.
C8_Witness ==
    /\ isPlaying
    /\ snakeIsInitial
    /\ snake = << Cell(9, 10), Cell(8, 10) >>
    /\ score = 0

(* C9: a key press whose direction is the opposite of the committed
   direction leaves the buffered direction unchanged, whatever it is, and
   the buffered direction is never the opposite of the committed one. *)
C9_OppositeKeyIgnored ==
    [][/\ \A k \in KeysFor[Opposite(direction)] :
            onKeyDown(k) => nextDirection' = nextDirection
       /\ nextDirection' # Opposite(direction')]_vars

\* A running game whose buffered direction differs from the committed one:
\* the opposite key is pressed against a buffer it could have overwritten.
C9_Witness ==
    /\ isPlaying
    /\ nextDirection # direction
    /\ KeysFor[Opposite(direction)] # {}

(* C10: a direction key pressed while Running is false leaves the buffered
   direction and every other field unchanged. *)
C10_KeyDroppedWhenNotRunning ==
    [][(~isPlaying /\ KeyPress) => UNCHANGED vars]_vars

(* C13: the pause/resume command is a no-op while GameOver is true; while
   GameOver is false it flips Running and changes nothing else. *)
C13_PauseResume ==
    [][pauseResume =>
         /\ isPlaying' = (IF gameOver THEN isPlaying ELSE ~isPlaying)
         /\ snake' = snake /\ score' = score /\ treasure' = treasure
         /\ direction' = direction /\ nextDirection' = nextDirection
         /\ gameOver' = gameOver]_vars

\* A game paused in mid-play: the score, the grown snake and a buffered turn
\* are all still there.
C13_Witness ==
    /\ ~isPlaying /\ ~gameOver
    /\ score > 0
    /\ Len(snake) >= 3
    /\ nextDirection # direction

(* C14: every snake segment and the treasure are inside the grid. *)
C14_InGrid ==
    /\ \A i \in 1..Len(snake) : InGrid(snake[i])
    /\ InGrid(treasure)

\* The head has reached the left or the top border and the game goes on.
C14_Witness ==
    /\ ~gameOver
    /\ ~snakeIsInitial
    /\ snake[1].x = 0 \/ snake[1].y = 0

(* C15: after every pause of a running game the Pause/Resume toggle is
   enabled, so that the game can be resumed. *)
C15_PausedCanResume ==
    [][(isPlaying /\ PauseClick) => ~PauseDisabled']_vars

(* C16: a tick that neither collides nor eats yields [new head] followed by
   the old body without its last segment; a tick that eats yields [new head]
   followed by the whole old body; the committed direction becomes the
   direction that was buffered. *)
C16_BodyAfterTick ==
    [][(Tick /\ InGrid(Ahead) /\ ~OnBody(snake, Ahead)) =>
         /\ snake' = IF Ahead = treasure
                     THEN <<Ahead>> \o snake
                     ELSE <<Ahead>> \o SubSeq(snake, 1, Len(snake) - 1)
         /\ direction' = nextDirection]_vars

\* A snake of three segments or more that a tick has moved around a corner.
C16_Witness ==
    /\ ~snakeIsInitial
    /\ Len(snake) >= 3
    /\ snake[1].x # snake[3].x
    /\ snake[1].y # snake[3].y
    /\ snake[1] = Cell(snake[2].x + direction.x, snake[2].y + direction.y)

(* C17: score = 10 * (snake length - 2) in every reachable state. *)
C17_ScoreFollowsLength == score = 10 * (Len(snake) - 2)

\* The treasure at (16,10) has been eaten: one more segment, ten more points,
\* and the treasure has moved to the other cell.
C17_Witness ==
    /\ score = 10
    /\ Len(snake) = 3
    /\ treasure = Cell(10, 10)

(* C18: Running and GameOver are never both true. *)
C18_NotRunningWhenOver == ~(isPlaying /\ gameOver)

\* A game that scored and then ended in a collision: GameOver is set and
\* Running is cleared.
C18_Witness ==
    /\ gameOver
    /\ ~isPlaying
    /\ score > 0

(* C19: consecutive snake segments are orthogonal neighbours. *)
C19_Connected ==
    \A i \in 1..(Len(snake) - 1) :
        \/ snake[i].x = snake[i + 1].x /\ snake[i].y - snake[i + 1].y \in {-1, 1}
        \/ snake[i].y = snake[i + 1].y /\ snake[i].x - snake[i + 1].x \in {-1, 1}

\* A snake of full length with two bends.
C19_Witness ==
    /\ Len(snake) = 5
    /\ snake[1].y = snake[2].y
    /\ snake[2].x = snake[3].x
    /\ snake[3].y = snake[4].y

(* C11: whenever a tick eats the treasure, the re-sampling terminates: the
   grown snake leaves at least one grid cell free. *)
C11_ResamplingTerminates ==
    (isPlaying /\ ~gameOver /\ Ahead = treasure)
        => Cardinality(Occupied(<<Ahead>> \o snake)) < GRID_SIZE * GRID_SIZE

(* C12: while the game runs, a tick fires one period after the previous one
   (or after the loop was started), however many key presses are accepted
   in between: no more than a period ever passes without a tick. *)
C12_TickEveryPeriod == (isPlaying /\ ~gameOver) => sinceTick <= TickQuanta

(* C20: if from some point on the game stays Running and no key is pressed
   (no pause, no start either), GameOver is eventually reached. *)
C20_StraightRunEnds ==
    (/\ <>[](isPlaying \/ gameOver)
     /\ <>[][~KeyPress /\ ~startGame /\ ~pauseResume]_vars)
        => <>gameOver

=============================================================================
